---- MODULE Spec2Model ----
(***************************************************************************)
(* Model of the extraction queue scheduler (QueueProcessor), the account   *)
(* rotation pool (DatabaseStorage) and the parts of the scraper life cycle *)
(* the scheduler depends on.                                               *)
(*                                                                         *)
(* The program is single-threaded asynchronous code.  Every action below   *)
(* is one awaited operation (a storage round trip or a browser call)       *)
(* together with the synchronous code that runs when it resolves, up to    *)
(* the next await.  Actions of the loop, of the workers and of cancelTask  *)
(* interleave freely, as the event loop interleaves them.                  *)
(***************************************************************************)
EXTENDS Integers, Sequences, FiniteSets, TLC

----------------------------------------------------------------------------
\* Bounds of the model
MaxTasks == 2
MaxAccounts == 2
MaxWorkers == 2
MaxClockSteps == 2
MaxCancels == 1
MaxFaults == 1
MaxLaunches == 3
MaxCancelLaunches == 2
MaxFaultLaunches == 2
MaxScenarioTasks == 3
MaxPriorityLaunches == 3
MaxSingleLaunches == 4
MaxCapWorkers == 3
MaxCapLaunches == 3
MaxStops == 1
MaxStopLaunches == 2
MaxForceLaunches == 2
MaxRetryLaunches == 4
MaxShortClockSteps == 1
MaxResets == 1
MaxResetLaunches == 2
MaxLawResets == 2
MaxFailureCount == 1
MaxToggles == 2
MaxToggleLaunches == 2
MaxDeletes == 1
MaxDeleteLaunches == 1
MaxColumnLaunches == 2
MaxRestartLaunches == 1
MaxProgressLaunches == 9
\* Lengths, in characters, of the pieces the page texts are built from.
SmallCandidateLength == 200
LargeCandidateLength == 5000
PaddingLength == 50
SkeletonLength == 300
SmallEchoLength == 400
MediumEchoLength == 6000
LargeEchoLength == 30000
SmallObjectLength == 150
MediumObjectLength == 3000
LargeObjectLength == 6000
HugeObjectLength == 30000
\* Time one smart-wait iteration may spend probing the selectors, in ms.
MaxProbeMs == 2500
ClockStepMs == 3600000

\* Program constants
Null == -1
CooldownMs == 3600000
HardMaxRetries == 3
DefaultMaxRetries == 3
MinCandidateLength == 100
SchemaMaxLength == 5000
BlobMinLength == 20000
MaxAttempts == 3
MaxWaitTime == 10000
CheckInterval == 500
MaxResponseWaitTime == 120000
PollInterval == 2000
StartTimeout == 15000
RetryPause == 3000
RetryTimeout == 10000

TaskIds == 1..MaxScenarioTasks
AccountIds == 1..MaxAccounts
WorkerIds == 1..MaxCapWorkers
MaxNow == MaxClockSteps * ClockStepMs

VARIABLES
  loops,            \* processLoop invocations that have not left their while
  tasks,            \* extraction_queue rows: id -> record
  accounts,         \* gemini_accounts rows: id -> record
  enabled,          \* config value of the key queue_processing_enabled
  now,              \* wall clock, in ms
  isRunning,        \* QueueProcessor.isRunning
  runningTasks,     \* keys of QueueProcessor.runningTasks
  runningScrapers,  \* QueueProcessor.runningScrapers: task id -> worker (0: none)
  cancelledTasks,   \* QueueProcessor.cancelledTasks
  lpc,              \* position of processLoop
  canStartNew,      \* local of processLoop
  pendingTasks,     \* local of processLoop: fetched rows not yet dispatched
  workers,          \* processTask invocations: slot -> record
  cancel,           \* the cancelTask call in flight, or the last one returned
  kgs,              \* knowledge_graphs rows: queueTaskId -> number of rows
  taskPromise,      \* values of QueueProcessor.runningTasks: task id -> worker (0: none)
  stopper,          \* the stop() call in flight, or the last one returned
  handed,           \* history: task id -> number of processTask calls so far
  tickStarted,      \* history: task ids dispatched in the current polling interval
  extraction,       \* one call of GeminiScraper.extract from the page text on
  session,          \* one call of GeminiScraper.init after the browser launch
  polling,          \* the polling loops of one scraper run
  budget            \* what the environment may still do: launches, cancels, faults,
                    \* stops, clock steps, bulk resets, config writes, deletes;
                    \* and how many workers the model lets run at once

vars == <<tasks, accounts, enabled, now, isRunning, runningTasks, runningScrapers,
          cancelledTasks, lpc, canStartNew, pendingTasks, workers, cancel, kgs,
          taskPromise, stopper, handed, tickStarted, extraction, session, polling,
          budget, loops>>

dbVars == <<tasks, accounts, enabled>>
procVars == <<isRunning, runningTasks, runningScrapers, cancelledTasks>>
loopVars == <<lpc, canStartNew, pendingTasks, loops>>
histVars == <<handed, tickStarted>>
scraperVars == <<extraction, session, polling>>

----------------------------------------------------------------------------
\* Rows, snapshots and the initial state

Idle == [pc |-> "idle", task |-> 0, retrySnap |-> 0, acct |-> 0, acctRlu |-> Null, account |-> <<>>,
         scraper |-> "new", isRL |-> FALSE, failNow |-> 0, cancelHeld |-> FALSE]

NoCancel == [pc |-> "none", task |-> 0, kind |-> "none", polls |-> 0, force |-> FALSE]

Active(w) == workers[w].pc # "idle"

\* A Queued row as createQueueItem leaves it: never tried, with the priority
\* and maxRetries the submitter chose; createdAt is the id.
NewTask(p, m) == [status |-> "queued", retryCount |-> 0, maxRetries |-> m, priority |-> p]

\* No row with this id: never created, or deleted.
NoTask == [status |-> "absent", retryCount |-> 0, maxRetries |-> 0, priority |-> 0]

NoStop == [pc |-> "none", waits |-> {}, atCall |-> {}]

\* An account row after fixAccountsActiveStatus.
FreshAccount == [isActive |-> TRUE, inUse |-> FALSE, rlu |-> Null]

\* A row whose extraction completed at the first attempt.
DoneTask(p, m) == [NewTask(p, m) EXCEPT !.status = "completed"]

\* The queues the model starts from: task 1 was submitted first with priority
\* 1 and the default maxRetries, the later ones with priority 5 and
\* maxRetries 1; either all are Queued or only task 1 still is.
InitialQueues ==
  { [t \in TaskIds |-> IF t = 1 THEN NewTask(1, DefaultMaxRetries)
                        ELSE IF t > MaxTasks THEN NoTask
                        ELSE IF all THEN NewTask(5, 1) ELSE DoneTask(5, 1)]
    : all \in BOOLEAN }

\* No extract, init or polling loop is being followed.
NoExtraction == [pc |-> "none"]
NoSession == [pc |-> "none"]
NoPolling == [pc |-> "none"]

\* The processor and the database after startup with the queue q and the
\* accounts pool.
InitProcessor(q, pool, b) ==
  /\ tasks \in q
  /\ accounts = pool
  /\ enabled = "true"
  /\ now = 0
  /\ isRunning = FALSE
  /\ runningTasks = {}
  /\ runningScrapers = [t \in TaskIds |-> 0]
  /\ cancelledTasks = {}
  /\ lpc = "none"
  /\ loops = 0
  /\ canStartNew = 0
  /\ pendingTasks = <<>>
  /\ workers = [w \in WorkerIds |-> Idle]
  /\ cancel = NoCancel
  /\ kgs = [t \in TaskIds |-> IF tasks[t].status = "completed" THEN 1 ELSE 0]
  /\ taskPromise = [t \in TaskIds |-> 0]
  /\ stopper = NoStop
  /\ handed = [t \in TaskIds |-> 0]
  /\ tickStarted = {}
  /\ budget = b

\* The state after startup; the inside of the scraper is not followed.
InitPool(q, pool, b) ==
  /\ InitProcessor(q, pool, b)
  /\ extraction = NoExtraction
  /\ session = NoSession
  /\ polling = NoPolling

\* registerRoutes runs seedDefaultConfig and fixAccountsActiveStatus at startup.
InitWith(q, b) == InitPool(q, [a \in AccountIds |-> FreshAccount], b)

Init == InitWith(InitialQueues, [slots |-> MaxWorkers, clock |-> MaxClockSteps, launches |-> MaxLaunches, cancels |-> 0, faults |-> 0, stops |-> 0, resets |-> 0, toggles |-> 0, deletes |-> 0])

----------------------------------------------------------------------------
\* DatabaseStorage queries

\* A WHERE clause that forgets the cooldown.
IsAvailableNoCooldown(r, t) == r.isActive = TRUE /\ r.inUse = FALSE

\* The WHERE clause of getAvailableAccount, for account row r at time t.
IsAvailable(r, t) ==
  /\ r.isActive = TRUE
  /\ r.inUse = FALSE
  /\ (r.rlu = Null \/ r.rlu < t)

\* getAvailableAccount: the rows the query may return (LIMIT 1, no ORDER BY).
GetAvailableAccount == { a \in AccountIds : IsAvailable(accounts[a], now) }

\* getAllAvailableAccounts: every account satisfying the availability predicate.
GetAllAvailableAccounts == { a \in AccountIds : IsAvailable(accounts[a], now) }

Queued == { t \in TaskIds : tasks[t].status = "queued" }

\* t1 comes before t2 in (priority desc, createdAt asc).
Before(t1, t2) ==
  \/ tasks[t1].priority > tasks[t2].priority
  \/ tasks[t1].priority = tasks[t2].priority /\ t1 < t2

RECURSIVE SortQueued(_)
SortQueued(S) ==
  IF S = {} THEN <<>>
  ELSE LET first == CHOOSE t \in S : \A u \in S \ {t} : Before(t, u)
       IN  <<first>> \o SortQueued(S \ {first})

Snapshot(t) == [id |-> t, retryCount |-> tasks[t].retryCount]

\* getPendingQueueItems(limit): the first `limit` Queued rows in scheduling order.
GetPendingQueueItems(limit) ==
  LET s == SortQueued(Queued)
      n == IF Len(s) < limit THEN Len(s) ELSE limit
  IN  [i \in 1..n |-> Snapshot(s[i])]

----------------------------------------------------------------------------
\* QueueProcessor.start and processLoop

\* The model follows one processLoop: a start after a stop is taken once the
\* loop of the previous start has left its while.
start ==
  /\ ~isRunning
  /\ lpc = "none"
  /\ isRunning' = TRUE
  /\ lpc' = "check"
  /\ loops' = loops + 1
  /\ UNCHANGED <<scraperVars, dbVars, now, runningTasks, runningScrapers, cancelledTasks,
                 canStartNew, pendingTasks, workers, cancel, budget,
                 kgs, taskPromise, stopper, handed, tickStarted>>

\* start() called again after stop() while the loop of the earlier start is
\* still inside its while: the flag is false, so it is set and a second
\* processLoop() is begun; the earlier loop then finds the flag true.
StartWhileLooping ==
  /\ ~isRunning
  /\ lpc # "none"
  /\ isRunning' = TRUE
  /\ loops' = loops + 1
  /\ UNCHANGED <<scraperVars, dbVars, now, runningTasks, runningScrapers, cancelledTasks,
                 lpc, canStartNew, pendingTasks, workers, cancel, budget,
                 kgs, taskPromise, stopper, handed, tickStarted>>

\* The config row holds free text; the routes and the settings page write
\* 'true' and 'false', the config API writes whatever it is sent.
ConfigValues == {"true", "false", "TRUE", ""}

\* A test that takes everything but 'false' for on.
IsEnabledUnlessFalse(v) == v # "false"

\* if (isEnabled !== 'true') { sleep; continue; }
IsEnabled(v) == v = "true"

\* while (this.isRunning) { getConfigValue(...) ... }: a polling interval begins.
LoopCheck ==
  /\ lpc = "check"
  /\ lpc' = IF ~isRunning THEN "none" ELSE IF IsEnabled(enabled) THEN "count" ELSE "check"
  /\ loops' = IF ~isRunning THEN loops - 1 ELSE loops
  /\ cancel' = IF cancel.pc # "none" /\ cancel.polls < 2
               THEN [cancel EXCEPT !.polls = @ + 1] ELSE cancel
  /\ tickStarted' = {}
  /\ UNCHANGED <<scraperVars, dbVars, now, procVars, canStartNew, pendingTasks, workers, budget,
                 kgs, taskPromise, stopper, handed>>

\* A tick that forgets the workers already running.
CanStartNewIgnoringRunning(maxConcurrent, currentlyRunning) == maxConcurrent

\* canStartNew = maxConcurrent - currentlyRunning
CanStartNew(maxConcurrent, currentlyRunning) == maxConcurrent - currentlyRunning

\* getAllAvailableAccounts, then canStartNew = maxConcurrent - currentlyRunning.
LoopCount ==
  /\ lpc = "count"
  /\ LET n == CanStartNew(Cardinality(GetAllAvailableAccounts), Cardinality(runningTasks))
     IN  /\ canStartNew' = n
         /\ lpc' = IF n > 0 THEN "fetch" ELSE "check"
  /\ UNCHANGED <<scraperVars, dbVars, now, procVars, pendingTasks, loops, workers, cancel, budget,
                 kgs, taskPromise, stopper, handed, tickStarted>>

\* getPendingQueueItems(canStartNew)
LoopFetch ==
  /\ lpc = "fetch"
  /\ pendingTasks' = GetPendingQueueItems(canStartNew)
  /\ lpc' = IF pendingTasks' = <<>> THEN "check" ELSE "claim"
  /\ UNCHANGED <<scraperVars, dbVars, now, procVars, canStartNew, loops, workers, cancel, budget,
                 kgs, taskPromise, stopper, handed, tickStarted>>

\* The counters of the account object that getAvailableAccount returned and
\* processTask keeps: the columns as they were read.  A row carries the
\* counter columns in the specifications that follow them.
CounterCols == {"totalExtractionsCount", "successCount", "failureCount"}

AccountCounters(row) == [f \in DOMAIN row \cap CounterCols |-> row[f]]

\* A worker that does not test the cancel flag.
NewWorkerUnchecked(task, a) ==
  [pc |-> "markProcessing",
   task |-> task.id, retrySnap |-> task.retryCount, acct |-> a,
   acctRlu |-> accounts[a].rlu, account |-> AccountCounters(accounts[a]), scraper |-> "new",
   isRL |-> FALSE, failNow |-> 0, cancelHeld |-> FALSE]

\* The synchronous head of processTask(task, account): a new scraper is
\* registered and the cancel flag is tested.
NewWorker(task, a) ==
  [pc |-> IF task.id \in cancelledTasks THEN "cancelPre" ELSE "markProcessing",
   task |-> task.id, retrySnap |-> task.retryCount, acct |-> a,
   acctRlu |-> accounts[a].rlu, account |-> AccountCounters(accounts[a]), scraper |-> "new", isRL |-> FALSE, failNow |-> 0, cancelHeld |-> FALSE]

FreeSlot == CHOOSE w \in WorkerIds : ~Active(w) /\ \A v \in WorkerIds : v < w => Active(v)

\* A loop that walks the fetched rows from the end.
ForOfLast(p) == p[Len(p)]

\* for (const task of pendingTasks): the row of the next round.
ForOf(p) == Head(p)

\* One round of `for (const task of pendingTasks)`: getAvailableAccount, then
\* either break or processTask(task, account) and runningTasks.set.
LoopClaim ==
  /\ lpc = "claim"
  /\ LET task == ForOf(pendingTasks) IN
       \/ /\ GetAvailableAccount = {}
          /\ pendingTasks' = <<>>
          /\ lpc' = "check"
          /\ UNCHANGED <<workers, runningTasks, runningScrapers, budget,
                         taskPromise, handed, tickStarted>>
       \/ /\ Cardinality({ w \in WorkerIds : Active(w) }) < budget.slots
          /\ budget.launches > 0
          /\ budget' = [budget EXCEPT !.launches = @ - 1]
          /\ \E a \in GetAvailableAccount :
               /\ workers' = [workers EXCEPT ![FreeSlot] = NewWorker(task, a)]
               /\ runningScrapers' = [runningScrapers EXCEPT ![task.id] = FreeSlot]
               /\ runningTasks' = runningTasks \cup {task.id}
               /\ taskPromise' = [taskPromise EXCEPT ![task.id] = FreeSlot]
          /\ handed' = [handed EXCEPT ![task.id] = @ + 1]
          /\ tickStarted' = tickStarted \cup {task.id}
          /\ pendingTasks' = Tail(pendingTasks)
          /\ lpc' = IF Tail(pendingTasks) = <<>> THEN "check" ELSE "claim"
  /\ UNCHANGED <<scraperVars, dbVars, now, isRunning, cancelledTasks, canStartNew, loops, cancel,
                 kgs, stopper>>

\* Time passes.  The program reads the clock only to set and to test cooldown
\* deadlines, so the clock advances only while a deadline is set or is about
\* to be written.
Tick ==
  /\ now + ClockStepMs <= MaxNow
  /\ budget.clock > 0
  /\ budget' = [budget EXCEPT !.clock = @ - 1]
  /\ \/ \E a \in AccountIds : accounts[a].rlu # Null
     \/ \E w \in WorkerIds : workers[w].pc \in {"catchTask", "catchAccount"} /\ workers[w].isRL
  /\ now' = now + ClockStepMs
  /\ UNCHANGED <<scraperVars, dbVars, procVars, loopVars, workers, cancel,
                 kgs, taskPromise, stopper, handed, tickStarted>>

----------------------------------------------------------------------------
\* QueueProcessor.processTask

\* UPDATE ... SET cols: the columns of cols that the row carries are written.
SetCols(row, cols) == [f \in DOMAIN row |-> IF f \in DOMAIN cols THEN cols[f] ELSE row[f]]

\* (account.count || 0) + 1, from the account object the worker was given.
Incremented(account, f) == IF f \in DOMAIN account THEN account[f] + 1 ELSE 0

\* History: one more outcome f on the account.
Tally(row, f) == IF f \in DOMAIN row THEN [row EXCEPT ![f] = @ + 1] ELSE row

\* storage.updateQueueItem(id, {status: v}): UPDATE ... WHERE id = id
UpdateQueueItem(id, v) ==
  IF tasks[id].status = "absent" THEN tasks ELSE [tasks EXCEPT ![id].status = v]

\* catch (err): isRateLimit and Date.now() are taken when the handler is entered.
Throw(w, rl) ==
  [workers[w] EXCEPT !.pc = "catchTask", !.isRL = rl, !.failNow = IF rl THEN now ELSE 0,
                     !.scraper = "done"]

\* A handler that cools the account down after every failure.
RateLimitUntilAlways(isRateLimit, dateNow) == dateNow + CooldownMs

\* rateLimitUntil = isRateLimit ? new Date(Date.now() + 3600000) : null
RateLimitUntil(isRateLimit, dateNow) == IF isRateLimit THEN dateNow + CooldownMs ELSE Null

\* currentRetryCount = (task.retryCount || 0) + 1
CurrentRetryCount(retryCount) == retryCount + 1

\* A handler that re-queues after every failure.
NewStatusAlwaysQueued(currentRetryCount) == "queued"

\* shouldRetry ? 'queued' : 'failed', with maxRetries = 3
NewStatus(currentRetryCount) ==
  IF currentRetryCount < HardMaxRetries THEN "queued" ELSE "failed"

\* finally { runningScrapers.delete(task.id); cancelledTasks.delete(task.id); ... }
FinallyHead(w) ==
  /\ runningScrapers' = [runningScrapers EXCEPT ![workers[w].task] = 0]
  /\ cancelledTasks' = cancelledTasks \ {workers[w].task}

\* A worker that returns from try/catch without closing its scraper.
ReturnWithoutClose(w) == Idle

\* The worker leaves try/catch: what remains is scraper.close().
ToClose(w) == [workers[w] EXCEPT !.pc = "close", !.cancelHeld = FALSE, !.scraper = "done"]

\* if (this.isTaskCancelled(task.id)) { updateQueueItem(cancelled); return; }
CancelPre(w) ==
  /\ workers[w].pc = "cancelPre"
  /\ tasks' = UpdateQueueItem(workers[w].task, "cancelled")
  /\ FinallyHead(w)
  /\ workers' = [workers EXCEPT ![w] = ToClose(w)]
  /\ UNCHANGED <<scraperVars, accounts, enabled, now, isRunning, runningTasks, loopVars, cancel, budget,
                 kgs, taskPromise, stopper, handed, tickStarted>>

\* updateQueueItem(task.id, {status: 'processing', startedAt, assignedAccountId})
MarkProcessing(w) ==
  /\ workers[w].pc = "markProcessing"
  /\ tasks' = [UpdateQueueItem(workers[w].task, "processing") EXCEPT
                 ![workers[w].task] = SetCols(@, [startedAt |-> now,
                                                  assignedAccountId |-> workers[w].acct])]
  /\ workers' = [workers EXCEPT ![w].pc = "markInUse"]
  /\ UNCHANGED <<scraperVars, accounts, enabled, now, procVars, loopVars, cancel, budget,
                 kgs, taskPromise, stopper, handed, tickStarted>>

\* updateAccount(account.id, {isCurrentlyInUse: true, lastUsedAt}); createLog
MarkInUse(w) ==
  /\ workers[w].pc = "markInUse"
  /\ accounts' = [accounts EXCEPT
       ![workers[w].acct] = SetCols(@, [inUse |-> TRUE, lastUsedAt |-> now])]
  /\ workers' = [workers EXCEPT ![w].pc = "init"]
  /\ UNCHANGED <<scraperVars, tasks, enabled, now, procVars, loopVars, cancel, budget,
                 kgs, taskPromise, stopper, handed, tickStarted>>

\* scraper.init / scraper.login / scraper.extract: each returns or throws; a
\* scraper whose browser cancelTask has closed can only throw.
ScraperStep(w) ==
  /\ workers[w].pc \in {"init", "login", "extract"}
  /\ \/ /\ workers[w].scraper # "closed"
        /\ workers' = [workers EXCEPT
             ![w].pc = CASE workers[w].pc = "init" -> "login"
                         [] workers[w].pc = "login" -> "extract"
                         [] OTHER -> "createKG",
             ![w].scraper = IF workers[w].pc = "extract" THEN "done" ELSE "open"]
     \/ \E rl \in BOOLEAN :
          /\ workers[w].scraper = "closed" => ~rl
          /\ workers' = [workers EXCEPT ![w] = Throw(w, rl)]
  /\ UNCHANGED <<scraperVars, dbVars, now, procVars, loopVars, cancel, budget,
                 kgs, taskPromise, stopper, handed, tickStarted>>

\* storage.createKG({... queueTaskId: task.id ...}): the INSERT fails when no
\* extraction_queue row has the id (foreign key), and the handler is entered.
CreateKG(w) ==
  /\ workers[w].pc = "createKG"
  /\ IF tasks[workers[w].task].status = "absent"
     THEN /\ kgs' = kgs
          /\ workers' = [workers EXCEPT ![w] = Throw(w, FALSE)]
     ELSE /\ kgs' = [kgs EXCEPT ![workers[w].task] = @ + 1]
          /\ workers' = [workers EXCEPT ![w].pc = "markCompleted"]
  /\ UNCHANGED <<scraperVars, dbVars, now, procVars, loopVars, cancel, budget,
                 taskPromise, stopper, handed, tickStarted>>

\* updateQueueItem(task.id, {status: 'completed', completedAt})
MarkCompleted(w) ==
  /\ workers[w].pc = "markCompleted"
  /\ tasks' = UpdateQueueItem(workers[w].task, "completed")
  /\ workers' = [workers EXCEPT ![w].pc = "releaseOk"]
  /\ UNCHANGED <<scraperVars, accounts, enabled, now, procVars, loopVars, cancel, budget,
                 kgs, taskPromise, stopper, handed, tickStarted>>

\* updateAccount(account.id, {isCurrentlyInUse: false, counters}); createLog;
\* then the finally block's bookkeeping.
ReleaseOk(w) ==
  /\ workers[w].pc = "releaseOk"
  /\ accounts' = [accounts EXCEPT
       ![workers[w].acct] =
          Tally(SetCols(@, [inUse |-> FALSE,
                            totalExtractionsCount |->
                              Incremented(workers[w].account, "totalExtractionsCount"),
                            successCount |-> Incremented(workers[w].account, "successCount")]),
                "completed")]
  /\ FinallyHead(w)
  /\ workers' = [workers EXCEPT ![w] = ToClose(w)]
  /\ UNCHANGED <<scraperVars, tasks, enabled, now, isRunning, runningTasks, loopVars, cancel, budget,
                 kgs, taskPromise, stopper, handed, tickStarted>>

\* catch: updateQueueItem(task.id, {status: newStatus, errorMessage, retryCount})
CatchTask(w) ==
  /\ workers[w].pc = "catchTask"
  /\ LET c == CurrentRetryCount(workers[w].retrySnap) IN
       tasks' = [UpdateQueueItem(workers[w].task, NewStatus(c)) EXCEPT
                   ![workers[w].task].retryCount =
                       IF tasks[workers[w].task].status = "absent" THEN @ ELSE c]
  /\ workers' = [workers EXCEPT ![w].pc = "catchAccount"]
  /\ UNCHANGED <<scraperVars, accounts, enabled, now, procVars, loopVars, cancel, budget,
                 kgs, taskPromise, stopper, handed, tickStarted>>

\* catch: updateAccount(account.id, {isCurrentlyInUse: false, failureCount,
\* lastError, rateLimitedUntil: rateLimitUntil}); createLog; then the finally
\* block's bookkeeping.
CatchAccount(w) ==
  /\ workers[w].pc = "catchAccount"
  /\ accounts' = [accounts EXCEPT
       ![workers[w].acct] =
          Tally(SetCols(@, [inUse |-> FALSE,
                            rlu |-> RateLimitUntil(workers[w].isRL, workers[w].failNow),
                            failureCount |-> Incremented(workers[w].account, "failureCount"),
                            lastError |-> "message"]),
                "failed")]
  /\ FinallyHead(w)
  /\ workers' = [workers EXCEPT ![w] = ToClose(w)]
  /\ UNCHANGED <<scraperVars, tasks, enabled, now, isRunning, runningTasks, loopVars, cancel, budget,
                 kgs, taskPromise, stopper, handed, tickStarted>>

\* finally: await scraper.close(); the promise settles and
\* taskPromise.finally deletes task.id from runningTasks.
Close(w) ==
  /\ workers[w].pc = "close"
  /\ runningTasks' = runningTasks \ {workers[w].task}
  /\ taskPromise' = [taskPromise EXCEPT ![workers[w].task] = 0]
  /\ stopper' = [stopper EXCEPT !.waits = @ \ {w}, !.atCall = @ \ {w}]
  /\ workers' = [workers EXCEPT ![w] = Idle]
  /\ UNCHANGED <<scraperVars, dbVars, now, isRunning, runningScrapers, cancelledTasks, loopVars,
                 cancel, budget,
                 kgs, handed, tickStarted>>

\* The steps of a worker whose task was not cancelled before it started.
WorkerStep(w) ==
  \/ MarkProcessing(w) \/ MarkInUse(w) \/ ScraperStep(w)
  \/ CreateKG(w) \/ MarkCompleted(w) \/ ReleaseOk(w)
  \/ CatchTask(w) \/ CatchAccount(w) \/ Close(w)

TrySteps == {"cancelPre", "markProcessing", "markInUse", "createKG",
             "markCompleted", "releaseOk"}
CatchSteps == {"catchTask", "catchAccount"}

\* A storage call of the worker rejects (the database is unreachable, a
\* statement fails).  Inside try the handler is entered; inside the handler
\* the error escapes processTask through the finally block.
StorageFault(w) ==
  /\ budget.faults > 0
  /\ budget' = [budget EXCEPT !.faults = @ - 1]
  /\ \/ /\ workers[w].pc \in TrySteps
        /\ workers' = [workers EXCEPT ![w] = Throw(w, FALSE)]
        /\ UNCHANGED <<runningScrapers, cancelledTasks>>
     \/ /\ workers[w].pc \in CatchSteps
        /\ FinallyHead(w)
        /\ workers' = [workers EXCEPT ![w] = ToClose(w)]
  /\ UNCHANGED <<scraperVars, dbVars, now, isRunning, runningTasks, loopVars, cancel,
                 kgs, taskPromise, stopper, handed, tickStarted>>

----------------------------------------------------------------------------
\* QueueProcessor.cancelTask

\* scraper.close(): a launched browser is closed; a scraper not yet launched
\* has nothing to close.
ScraperClose(s) == IF s = "open" THEN "closed" ELSE s

\* The worker has written isCurrentlyInUse = true and not yet written it false.
HoldsAccount(w) ==
  workers[w].pc \in {"init", "login", "extract", "createKG", "markCompleted",
                     "releaseOk", "catchTask", "catchAccount"}

\* cancelledTasks.add(taskId); scraper = runningScrapers.get(taskId);
\* if (scraper) scraper.close() is started.
CancelBegin(t, force) ==
  /\ budget.cancels > 0
  /\ \/ cancel.pc \in {"none", "deleted", "deleteThrew"}
     \/ ~cancel.force /\ cancel.pc \in {"retTrue", "retFalse"}
  /\ budget' = [budget EXCEPT !.cancels = @ - 1]
  /\ cancelledTasks' = cancelledTasks \cup {t}
  /\ LET w == runningScrapers[t] IN
       IF w # 0
       THEN /\ workers' = [workers EXCEPT
                 ![w].scraper = ScraperClose(@),
                 ![w].cancelHeld = HoldsAccount(w)]
            /\ cancel' = [pc |-> "update", task |-> t, kind |-> "running", polls |-> 0,
                          force |-> force]
       ELSE /\ workers' = workers
            /\ cancel' = [pc |-> "lookup", task |-> t, polls |-> 0, force |-> force,
                          kind |-> IF tasks[t].status = "queued"
                                      /\ \A v \in WorkerIds : workers[v].task # t
                                   THEN "queuedIdle" ELSE "stale"]
  /\ UNCHANGED <<scraperVars, dbVars, now, isRunning, runningTasks, runningScrapers, loopVars,
                 kgs, taskPromise, stopper, handed, tickStarted>>

\* cancelTask(taskId) called by a user.
CancelStart(t) == CancelBegin(t, FALSE)

\* getQueueItemById(taskId); if (task && task.status === 'processing') ...
CancelLookup ==
  /\ cancel.pc = "lookup"
  /\ cancel' = [cancel EXCEPT !.pc = IF tasks[cancel.task].status = "processing"
                                     THEN "update" ELSE "retFalse"]
  /\ UNCHANGED <<scraperVars, dbVars, now, procVars, loopVars, workers, budget,
                 kgs, taskPromise, stopper, handed, tickStarted>>

\* updateQueueItem(taskId, {status: 'cancelled', errorMessage}); return true
CancelUpdate ==
  /\ cancel.pc = "update"
  /\ tasks' = UpdateQueueItem(cancel.task, "cancelled")
  /\ cancel' = [cancel EXCEPT !.pc = "retTrue"]
  /\ UNCHANGED <<scraperVars, accounts, enabled, now, procVars, loopVars, workers, budget,
                 kgs, taskPromise, stopper, handed, tickStarted>>

cancelTask == (\E t \in TaskIds : CancelStart(t)) \/ CancelLookup \/ CancelUpdate

----------------------------------------------------------------------------
\* QueueProcessor.forceDeleteTask

\* forceDeleteTask(taskId): await this.cancelTask(taskId) begins.
ForceStart(t) == CancelBegin(t, TRUE)

\* DELETE FROM extraction_queue WHERE id = id.  knowledge_graphs.queue_task_id
\* references extraction_queue.id with no ON DELETE rule: the statement fails
\* while a knowledge graph row points to the task.
DeleteQueueItem(id) == IF kgs[id] > 0 THEN tasks ELSE [tasks EXCEPT ![id] = NoTask]

DeleteThrows(id) == kgs[id] > 0

\* cancelTask has returned and the 1000 ms wait is over:
\* await storage.deleteQueueItem(taskId).
ForceDelete ==
  /\ cancel.force
  /\ cancel.pc \in {"retTrue", "retFalse"}
  /\ tasks' = DeleteQueueItem(cancel.task)
  /\ cancel' = [cancel EXCEPT !.pc = IF DeleteThrows(cancel.task) THEN "deleteThrew"
                                     ELSE "deleted"]
  /\ UNCHANGED <<scraperVars, accounts, enabled, now, procVars, loopVars, workers, kgs, taskPromise,
                 stopper, histVars, budget>>

forceDeleteTask ==
  (\E t \in TaskIds : ForceStart(t)) \/ CancelLookup \/ CancelUpdate \/ ForceDelete

----------------------------------------------------------------------------
\* QueueProcessor.stop

\* this.isRunning = false; Promise.all(Array.from(this.runningTasks.values()))
\* is formed from the promises the map holds now.
StopCall ==
  /\ budget.stops > 0
  /\ stopper.pc # "waiting"
  /\ budget' = [budget EXCEPT !.stops = @ - 1]
  /\ isRunning' = FALSE
  /\ stopper' = [pc |-> "waiting",
                 waits |-> { taskPromise[t] : t \in runningTasks },
                 atCall |-> { w \in WorkerIds : Active(w) }]
  /\ UNCHANGED <<scraperVars, dbVars, now, runningTasks, runningScrapers, cancelledTasks, loopVars,
                 workers, cancel, kgs, taskPromise, histVars>>

\* Every awaited promise has settled: stop() returns.
StopReturn ==
  /\ stopper.pc = "waiting"
  /\ stopper.waits = {}
  /\ stopper' = [stopper EXCEPT !.pc = "returned"]
  /\ UNCHANGED <<scraperVars, dbVars, now, procVars, loopVars, workers, cancel, kgs, taskPromise,
                 histVars, budget>>

stop == StopCall \/ StopReturn

----------------------------------------------------------------------------
\* Routes that write accounts, config and queue rows

\* A reset that also clears the failure counter.
FixAccountsClearingCounters(accs) ==
  [a \in DOMAIN accs |->
     [accs[a] EXCEPT !.isActive = TRUE, !.inUse = FALSE, !.rlu = Null, !.failureCount = 0]]

\* db.update(geminiAccounts).set({isActive: true, isCurrentlyInUse: false,
\* rateLimitedUntil: null, updatedAt}) with no where clause: every row, and
\* only these columns (updatedAt is not modelled).
FixAccountsActiveStatus(accs) ==
  [a \in DOMAIN accs |->
     [accs[a] EXCEPT !.isActive = TRUE, !.inUse = FALSE, !.rlu = Null]]

\* PUT config with the key queue_processing_enabled: updateConfig(key, value).
SetConfig ==
  /\ budget.toggles > 0
  /\ budget' = [budget EXCEPT !.toggles = @ - 1]
  /\ \E v \in ConfigValues \ {enabled} : enabled' = v
  /\ UNCHANGED <<scraperVars, tasks, accounts, now, procVars, loopVars, workers, cancel,
                 kgs, taskPromise, stopper, histVars>>

\* DELETE /api/queue/:id: storage.deleteQueueItem(id) and a log event; a
\* failed statement is answered with status 500.
DeleteRoute(id) ==
  /\ budget.deletes > 0
  /\ budget' = [budget EXCEPT !.deletes = @ - 1]
  /\ tasks' = DeleteQueueItem(id)
  /\ UNCHANGED <<scraperVars, accounts, enabled, now, procVars, loopVars, workers, cancel,
                 kgs, taskPromise, stopper, histVars>>

\* POST /api/accounts/activate-all: fixAccountsActiveStatus, getAccounts and
\* a log event.
ActivateAll ==
  /\ budget.resets > 0
  /\ budget' = [budget EXCEPT !.resets = @ - 1]
  /\ accounts' = FixAccountsActiveStatus(accounts)
  /\ UNCHANGED <<scraperVars, tasks, enabled, now, procVars, loopVars, workers, cancel,
                 kgs, taskPromise, stopper, histVars>>

----------------------------------------------------------------------------
\* GeminiScraper.extract: from the text of the response container to the
\* parsed knowledge graph

\* A text is a sequence of pieces.  A piece is one of the character groups the
\* extractor looks for, or a run of n other characters.
Tok(k, n) == [k |-> k, n |-> n]
OpenBrace == Tok("{", 1)
CloseBrace == Tok("}", 1)
StartTag == Tok("<<<JSON_START>>>", 16)
EndTag == Tok("<<<JSON_END>>>", 14)
\* Three backquotes.
Fence == Tok("fence", 3)
Ws == Tok("ws", 1)
\* The key with its two quotation marks.
MetadataKey == Tok("extraction_metadata", 21)
Colon == Tok(": ", 2)
Fill(n) == IF n = 0 THEN <<>> ELSE <<Tok("fill", n)>>

RECURSIVE CharLength(_)
\* candidate.length
CharLength(s) == IF s = <<>> THEN 0 ELSE Head(s).n + CharLength(Tail(s))

\* s.indexOf(k, from) and s.lastIndexOf(k, upto) over pieces; 0 for -1.
IndexOf(s, k, from) ==
  LET hits == { i \in from..Len(s) : s[i].k = k }
  IN  IF hits = {} THEN 0 ELSE CHOOSE i \in hits : \A j \in hits : i <= j

LastIndexOf(s, k, upto) ==
  LET hits == { i \in 1..upto : i <= Len(s) /\ s[i].k = k }
  IN  IF hits = {} THEN 0 ELSE CHOOSE i \in hits : \A j \in hits : i >= j

\* The first position at or after i that holds no white space.
SkipWs(s, i) ==
  LET rest == { j \in i..Len(s) : s[j].k # "ws" }
  IN  IF rest = {} THEN Len(s) + 1 ELSE CHOOSE j \in rest : \A l \in rest : j <= l

\* s.trim()
Trim(s) ==
  LET inked == { i \in 1..Len(s) : s[i].k # "ws" }
  IN  IF inked = {} THEN <<>>
      ELSE SubSeq(s, CHOOSE i \in inked : \A j \in inked : i <= j,
                     CHOOSE i \in inked : \A j \in inked : i >= j)

\* Strategy A: the text between the last start tag and the first end tag
\* after it, trimmed.
DelimiterCandidates(fullText) ==
  LET lastStartIndex == LastIndexOf(fullText, StartTag.k, Len(fullText))
      endIndex == IndexOf(fullText, EndTag.k, lastStartIndex + 1)
  IN  IF lastStartIndex = 0 \/ endIndex = 0 THEN <<>>
      ELSE <<Trim(SubSeq(fullText, lastStartIndex + 1, endIndex - 1))>>

\* The closing brace that ends the lazy group of the markdown pattern opened
\* at j: the first one followed by optional white space and a fence.
FenceClose(s, j) ==
  LET ends == { c \in (j + 1)..Len(s) :
                  /\ s[c].k = "}"
                  /\ SkipWs(s, c + 1) <= Len(s)
                  /\ s[SkipWs(s, c + 1)].k = Fence.k }
  IN  IF ends = {} THEN 0 ELSE CHOOSE c \in ends : \A d \in ends : c <= d

RECURSIVE MarkdownFrom(_, _)
\* Strategy B: every match of the markdown pattern from position i on: a
\* fence, optional white space, the shortest run from an opening brace to a
\* closing brace that is followed by optional white space and a fence (the
\* optional word json after the first fence is not modelled).
MarkdownFrom(s, i) ==
  IF i > Len(s) THEN <<>>
  ELSE IF s[i].k # Fence.k THEN MarkdownFrom(s, i + 1)
  ELSE LET j == SkipWs(s, i + 1)
           c == IF j <= Len(s) /\ s[j].k = "{" THEN FenceClose(s, j) ELSE 0
       IN  IF c = 0 THEN MarkdownFrom(s, i + 1)
           ELSE <<Trim(SubSeq(s, j, c))>> \o MarkdownFrom(s, SkipWs(s, c + 1) + 1)

MarkdownCandidates(fullText) == MarkdownFrom(fullText, 1)

\* Strategy C: from the first opening brace to the last closing brace.
BruteCandidates(fullText) ==
  LET firstOpen == IndexOf(fullText, "{", 1)
      lastClose == LastIndexOf(fullText, "}", Len(fullText))
  IN  IF firstOpen # 0 /\ lastClose > firstOpen
      THEN <<SubSeq(fullText, firstOpen, lastClose)>> ELSE <<>>

\* candidate.includes(...): the key extraction_metadata with an empty object
\* as its value (the second placeholder, company_identity, is not among the
\* pieces).
IsSchema(candidate) ==
  \E i \in 1..(Len(candidate) - 3) :
    /\ candidate[i].k = MetadataKey.k /\ candidate[i + 1].k = Colon.k
    /\ candidate[i + 2].k = "{" /\ candidate[i + 3].k = "}"

\* The cleanup of a large candidate that holds the skeleton: cut at the
\* opening brace before the second occurrence of the key.
ProcessedCandidate(candidate) ==
  IF CharLength(candidate) > BlobMinLength /\ IsSchema(candidate)
  THEN LET firstKeyIndex == IndexOf(candidate, MetadataKey.k, 1)
           secondKeyIndex == IndexOf(candidate, MetadataKey.k, firstKeyIndex + 1)
           realStart == LastIndexOf(candidate, "{", secondKeyIndex)
       IN  IF secondKeyIndex # 0 /\ realStart # 0
           THEN SubSeq(candidate, realStart, Len(candidate)) ELSE candidate
  ELSE candidate

RECURSIVE BestFrom(_, _, _)
\* The selection loop over the candidates in collection order: bestJson after
\* the candidates from i on, given bestJson so far (maxScore is its length).
BestFrom(candidates, i, bestJson) ==
  IF i > Len(candidates) THEN bestJson
  ELSE LET candidate == candidates[i] IN
       IF CharLength(candidate) < MinCandidateLength THEN BestFrom(candidates, i + 1, bestJson)
       ELSE IF IsSchema(candidate) /\ CharLength(candidate) < SchemaMaxLength
            THEN BestFrom(candidates, i + 1, bestJson)
       ELSE IF CharLength(ProcessedCandidate(candidate)) > CharLength(bestJson)
            THEN BestFrom(candidates, i + 1, ProcessedCandidate(candidate))
       ELSE BestFrom(candidates, i + 1, bestJson)

\* new Error(message): nothing but the message is set on it.
NewError(message) == [message |-> message, rawResponse |-> Null, rawResponseLength |-> Null]

\* Steps 2 to 4 of extract: the three strategies fill candidates.
ExtractCollect ==
  /\ extraction.pc = "collect"
  /\ extraction' = [extraction EXCEPT
       !.pc = "select",
       !.candidates = DelimiterCandidates(extraction.fullText)
                      \o MarkdownCandidates(extraction.fullText)
                      \o BruteCandidates(extraction.fullText)]
  /\ UNCHANGED <<dbVars, now, procVars, loopVars, workers, cancel, kgs, taskPromise,
                 stopper, histVars, session, polling, budget>>

\* Step 5: the selection loop, then if (!bestJson) throw.
ExtractSelect ==
  /\ extraction.pc = "select"
  /\ LET bestJson == BestFrom(extraction.candidates, 1, <<>>) IN
       extraction' = [extraction EXCEPT
         !.bestJson = bestJson,
         !.pc = IF bestJson = <<>> THEN "thrown" ELSE "parse",
         !.error = IF bestJson = <<>> THEN NewError("No valid JSON candidates found after filtering.")
                   ELSE @]
  /\ UNCHANGED <<dbVars, now, procVars, loopVars, workers, cancel, kgs, taskPromise,
                 stopper, histVars, session, polling, budget>>

\* Step 6: JSON.parse(bestJson); on failure JSON.parse(jsonrepair(bestJson));
\* on failure of that throw new Error('JSON Parse Failed: ...').
ExtractParse ==
  /\ extraction.pc = "parse"
  /\ extraction' = [extraction EXCEPT
       !.tried = IF extraction.strictOk THEN <<"standard">> ELSE <<"standard", "repair">>,
       !.pc = IF extraction.strictOk \/ extraction.repairOk THEN "returned" ELSE "thrown",
       !.error = IF extraction.strictOk \/ extraction.repairOk THEN @
                 ELSE NewError("JSON Parse Failed")]
  /\ UNCHANGED <<dbVars, now, procVars, loopVars, workers, cancel, kgs, taskPromise,
                 stopper, histVars, session, polling, budget>>

\* The metadata of the error event the worker writes for err.
LogMetadata(err) ==
  IF err.rawResponse # Null
  THEN [errorType |-> "Error", rawResponse |-> err.rawResponse,
        rawResponseLength |-> err.rawResponseLength, rawResponsePreview |-> err.rawResponse]
  ELSE [errorType |-> "Error", rawResponse |-> Null,
        rawResponseLength |-> Null, rawResponsePreview |-> Null]

\* extract rethrows to processTask, whose handler writes the error event.
ExtractFailureLogged ==
  /\ extraction.pc = "thrown"
  /\ extraction' = [extraction EXCEPT !.pc = "logged", !.logMetadata = LogMetadata(extraction.error)]
  /\ UNCHANGED <<dbVars, now, procVars, loopVars, workers, cancel, kgs, taskPromise,
                 stopper, histVars, session, polling, budget>>

extract == ExtractCollect \/ ExtractSelect \/ ExtractParse \/ ExtractFailureLogged

----------------------------------------------------------------------------
\* GeminiScraper.init: the source of the browser session

\* What init finds at a source: nothing, a state that loads, or something
\* that JSON.parse or browser.newContext rejects.
SourceStates == {"absent", "good", "bad"}

\* init(email, sessionData) after chromium.launch: no context yet.
NewSession(database, environment, file, emailFile) ==
  [pc |-> "database", database |-> database, environment |-> environment, file |-> file,
   emailFile |-> emailFile, context |-> "none", sessionLoadedFromSource |-> FALSE,
   sessionDir |-> FALSE, isLoggedIn |-> FALSE, saved |-> FALSE]

\* A guarded source: try { parse; newContext } catch { log }.
TryGuarded(s, source, state, next) ==
  IF s.context = "none" /\ state = "good"
  THEN [s EXCEPT !.pc = next, !.context = source, !.sessionLoadedFromSource = TRUE]
  ELSE [s EXCEPT !.pc = next]

\* An unguarded source: newContext({storageState: path}) inside the try of
\* init only, whose catch rethrows.
TryUnguarded(s, source, state, next) ==
  IF s.context # "none" \/ state = "absent" THEN [s EXCEPT !.pc = next]
  ELSE IF state = "good"
       THEN [s EXCEPT !.pc = next, !.context = source, !.sessionLoadedFromSource = TRUE]
       ELSE [s EXCEPT !.pc = "thrown"]

\* PRIORITY 1: if (sessionData) try { ... } catch { fall through }
SessionFromDatabase ==
  /\ session.pc = "database"
  /\ session' = TryGuarded(session, "database", session.database, "environment")
  /\ UNCHANGED <<dbVars, now, procVars, loopVars, workers, cancel, kgs, taskPromise,
                 stopper, histVars, extraction, polling, budget>>

\* PRIORITY 2: process.env.GEMINI_SESSION_JSON, try { ... } catch { fall through }
SessionFromEnvironment ==
  /\ session.pc = "environment"
  /\ session' = TryGuarded(session, "environment", session.environment, "file")
  /\ UNCHANGED <<dbVars, now, procVars, loopVars, workers, cancel, kgs, taskPromise,
                 stopper, histVars, extraction, polling, budget>>

\* PRIORITY 3: gemini_session.json in the working directory, if it exists.
SessionFromFile ==
  /\ session.pc = "file"
  /\ session' = TryUnguarded(session, "file", session.file, "emailFile")
  /\ UNCHANGED <<dbVars, now, procVars, loopVars, workers, cancel, kgs, taskPromise,
                 stopper, histVars, extraction, polling, budget>>

\* The state.json saved for this email under /tmp, if it exists.
SessionFromEmailFile ==
  /\ session.pc = "emailFile"
  /\ session' = [TryUnguarded(session, "emailFile", session.emailFile, "fresh") EXCEPT
                  !.sessionDir = session.context = "none" /\ session.emailFile # "absent"]
  /\ UNCHANGED <<dbVars, now, procVars, loopVars, workers, cancel, kgs, taskPromise,
                 stopper, histVars, extraction, polling, budget>>

\* PRIORITY 4: a new context without storage state, then the page is opened.
SessionFresh ==
  /\ session.pc = "fresh"
  /\ session' = [session EXCEPT !.pc = "done",
                                !.context = IF @ = "none" THEN "fresh" ELSE @,
                                !.sessionDir = @ \/ session.context = "none"]
  /\ UNCHANGED <<dbVars, now, procVars, loopVars, workers, cancel, kgs, taskPromise,
                 stopper, histVars, extraction, polling, budget>>

\* saveSession: if (!this.context || !this.sessionDir) return; otherwise the
\* storage state is written to state.json in the directory of the email.
SaveSession(s) ==
  IF s.context = "none" \/ ~s.sessionDir THEN s
  ELSE [s EXCEPT !.emailFile = "good", !.saved = TRUE]

\* login: the chat box is visible at once (only a loaded session can be
\* logged in), or the credentials are entered and the chat box is then
\* visible, or login throws; on the chat surface the session is saved.
Login ==
  /\ session.pc = "done"
  /\ \E alreadyLoggedIn \in BOOLEAN, onGemini \in BOOLEAN :
       /\ alreadyLoggedIn => session.sessionLoadedFromSource
       /\ session' = IF alreadyLoggedIn \/ onGemini
                     THEN SaveSession([session EXCEPT !.pc = "chat", !.isLoggedIn = TRUE])
                     ELSE [session EXCEPT !.pc = "loginThrown"]
  /\ UNCHANGED <<dbVars, now, procVars, loopVars, workers, cancel, kgs, taskPromise,
                 stopper, histVars, extraction, polling, budget>>

init ==
  \/ SessionFromDatabase \/ SessionFromEnvironment \/ SessionFromFile
  \/ SessionFromEmailFile \/ SessionFresh

----------------------------------------------------------------------------
\* The polling loops of GeminiScraper: handleGoogleInterstitials in login,
\* the smart wait for the prompt box and the wait for the end of generation
\* in extract

NewPolling ==
  [pc |-> "interstitials", attempt |-> 0, elapsed |-> 0, iteration |-> 0,
   sendButton |-> FALSE, started |-> FALSE, clicks |-> 0, enters |-> 0, retries |-> 0, startWait |-> 0,
   waitTime |-> 0, polls |-> 0, warned |-> FALSE]

\* One round of for (attempt = 0; attempt < maxAttempts; attempt++): a round
\* that dismisses nothing ends the loop.
InterstitialRound ==
  /\ polling.pc = "interstitials"
  /\ IF polling.attempt < MaxAttempts
     THEN \E foundInterstitial \in BOOLEAN :
            polling' = IF foundInterstitial
                       THEN [polling EXCEPT !.attempt = @ + 1]
                       ELSE [polling EXCEPT !.attempt = @ + 1, !.pc = "smartWait"]
     ELSE polling' = [polling EXCEPT !.pc = "smartWait"]
  /\ UNCHANGED <<dbVars, now, procVars, loopVars, workers, cancel, kgs, taskPromise,
                 stopper, histVars, extraction, session, budget>>

\* while (!promptBox && Date.now() - startTime < maxWaitTime): one iteration
\* probes the selectors and, if none is visible, waits checkInterval; without
\* a prompt box extract throws.
SmartWaitIteration ==
  /\ polling.pc = "smartWait"
  /\ IF polling.elapsed < MaxWaitTime
     THEN \E found \in BOOLEAN, probe \in {0, MaxProbeMs} :
            polling' = IF found
                       THEN [polling EXCEPT !.iteration = @ + 1, !.elapsed = @ + probe,
                                            !.pc = "send"]
                       ELSE [polling EXCEPT !.iteration = @ + 1,
                                            !.elapsed = @ + probe + CheckInterval]
     ELSE polling' = [polling EXCEPT !.pc = "thrown"]
  /\ UNCHANGED <<dbVars, now, procVars, loopVars, workers, cancel, kgs, taskPromise,
                 stopper, histVars, extraction, session, budget>>

\* The Double-Tap: the send button is looked for and, if found, clicked; one
\* second later the page is checked once and, if nothing is generating, Enter
\* is pressed.
SendPrompt ==
  /\ polling.pc = "send"
  /\ \E found \in BOOLEAN, generationStartedAfterClick \in BOOLEAN :
       polling' = [polling EXCEPT
         !.pc = "verify", !.sendButton = found,
         !.clicks = IF found THEN 1 ELSE 0,
         !.enters = IF generationStartedAfterClick THEN 0 ELSE 1]
  /\ UNCHANGED <<dbVars, now, procVars, loopVars, workers, cancel, kgs, taskPromise,
                 stopper, histVars, extraction, session, budget>>

\* waitForFunction(indicator, {timeout: 15000}); in its catch the final
\* retry: if (sendButton) click, ignoring a failed click; press Enter.
VerifyStart ==
  /\ polling.pc = "verify"
  /\ \E generationStarted \in BOOLEAN :
       polling' = IF generationStarted
                  THEN [polling EXCEPT !.pc = "completion", !.started = TRUE]
                  ELSE [polling EXCEPT
                          !.pc = "verifyRetry", !.retries = @ + 1,
                          !.startWait = @ + StartTimeout,
                          !.clicks = IF polling.sendButton THEN @ + 1 ELSE @,
                          !.enters = @ + 1]
  /\ UNCHANGED <<dbVars, now, procVars, loopVars, workers, cancel, kgs, taskPromise,
                 stopper, histVars, extraction, session, budget>>

\* A retry whose failed check is ignored.
AfterRetryAlwaysProceeds(generationStarted) == "completion"

\* The check after the retry: generationStarted = true, or in its catch
\* throw new Error('Generation failed to start ...').
AfterRetry(generationStarted) == IF generationStarted THEN "completion" ELSE "thrown"

\* waitForTimeout(3000), then waitForFunction(indicator, {timeout: 10000}).
VerifyRetry ==
  /\ polling.pc = "verifyRetry"
  /\ \E generationStarted \in BOOLEAN :
       polling' = [polling EXCEPT
         !.pc = AfterRetry(generationStarted), !.started = generationStarted,
         !.startWait = @ + RetryPause + (IF generationStarted THEN 0 ELSE RetryTimeout)]
  /\ UNCHANGED <<dbVars, now, procVars, loopVars, workers, cancel, kgs, taskPromise,
                 stopper, histVars, extraction, session, budget>>

\* A loop that polls once more at the ceiling.
KeepsWaitingAtCeiling(waitTime) == waitTime <= MaxResponseWaitTime

\* while (waitTime < maxResponseWaitTime)
KeepsWaiting(waitTime) == waitTime < MaxResponseWaitTime

\* One poll of the Stop generating button; after the loop the warning if the
\* ceiling was reached, then the DOM evaluation starts.
CompletionPoll ==
  /\ polling.pc = "completion"
  /\ IF KeepsWaiting(polling.waitTime)
     THEN \E isGenerating \in BOOLEAN :
            polling' = IF isGenerating
                       THEN [polling EXCEPT !.polls = @ + 1, !.waitTime = @ + PollInterval]
                       ELSE [polling EXCEPT !.polls = @ + 1, !.pc = "domEvaluation"]
     ELSE polling' = [polling EXCEPT !.pc = "domEvaluation",
                                     !.warned = polling.waitTime >= MaxResponseWaitTime]
  /\ UNCHANGED <<dbVars, now, procVars, loopVars, workers, cancel, kgs, taskPromise,
                 stopper, histVars, extraction, session, budget>>

poll ==
  \/ InterstitialRound \/ SmartWaitIteration \/ SendPrompt \/ VerifyStart \/ VerifyRetry
  \/ CompletionPoll

\* Time advancing: the clock passes every cooldown deadline now set.
Deadlines == { accounts[a].rlu : a \in { b \in AccountIds : accounts[b].rlu # Null } }

Elapse ==
  /\ \E d \in Deadlines : d >= now
  /\ now' = (CHOOSE d \in Deadlines : \A e \in Deadlines : e <= d) + 1
  /\ UNCHANGED <<scraperVars, dbVars, procVars, loopVars, workers, cancel, budget,
                 kgs, taskPromise, stopper, handed, tickStarted>>

----------------------------------------------------------------------------
\* Specifications

processLoop == LoopCheck \/ LoopCount \/ LoopFetch \/ LoopClaim

Next == start \/ processLoop \/ Tick \/ \E w \in WorkerIds : WorkerStep(w)

Spec == Init /\ [][Next]_vars

\* The scheduler with cancelTask calls arriving at any moment.
InitCancel ==
  InitWith(InitialQueues, [slots |-> MaxWorkers, clock |-> MaxClockSteps, launches |-> MaxCancelLaunches, cancels |-> MaxCancels, faults |-> 0, stops |-> 0, resets |-> 0, toggles |-> 0, deletes |-> 0])

NextCancel == Next \/ cancelTask \/ \E w \in WorkerIds : CancelPre(w)

SpecCancel == InitCancel /\ [][NextCancel]_vars

\* The scheduler with storage calls of the workers that may reject.
InitFault ==
  InitWith(InitialQueues, [slots |-> MaxWorkers, clock |-> MaxClockSteps, launches |-> MaxFaultLaunches, cancels |-> 0, faults |-> MaxFaults, stops |-> 0, resets |-> 0, toggles |-> 0, deletes |-> 0])

NextFault == Next \/ \E w \in WorkerIds : StorageFault(w)

SpecFault == InitFault /\ [][NextFault]_vars

\* Tasks A, B, C submitted in that order with priorities 5, 5, 1, the default
\* maxRetries and two available accounts.
PriorityQueue ==
  { [t \in TaskIds |-> IF t = 3 THEN NewTask(1, DefaultMaxRetries)
                        ELSE NewTask(5, DefaultMaxRetries)] }

InitPriority ==
  InitWith(PriorityQueue, [slots |-> MaxWorkers, clock |-> MaxClockSteps, launches |-> MaxPriorityLaunches, cancels |-> 0, faults |-> 0, stops |-> 0, resets |-> 0, toggles |-> 0, deletes |-> 0])

SpecPriority == InitPriority /\ [][Next]_vars

\* Three Queued tasks of any priorities and exactly one active account: the
\* other account has been switched off (PATCH /api/accounts/:id/toggle).
SingleQueue ==
  { [t \in TaskIds |-> NewTask(p[t], DefaultMaxRetries)] : p \in [TaskIds -> {1, 5}] }

SinglePool ==
  [a \in AccountIds |-> IF a = 1 THEN FreshAccount
                         ELSE [FreshAccount EXCEPT !.isActive = FALSE]]

InitSingle ==
  InitPool(SingleQueue, SinglePool,
           [slots |-> MaxWorkers, clock |-> MaxClockSteps, launches |-> MaxSingleLaunches, cancels |-> 0, faults |-> 0, stops |-> 0, resets |-> 0, toggles |-> 0, deletes |-> 0])

SpecSingle == InitSingle /\ [][Next]_vars

\* The queues in which only task 1 is still Queued.
LastTaskQueue == { q \in InitialQueues : { t \in TaskIds : q[t].status = "queued" } = {1} }

\* The scheduler with room for one worker more than there are accounts.
InitCap ==
  InitWith(LastTaskQueue,
           [slots |-> MaxCapWorkers, clock |-> MaxShortClockSteps, launches |-> MaxCapLaunches, cancels |-> 0, faults |-> 0, stops |-> 0, resets |-> 0, toggles |-> 0, deletes |-> 0])

SpecCap == InitCap /\ [][Next]_vars

\* The scheduler with a stop() call arriving at any moment.
InitStop ==
  InitWith(InitialQueues,
           [slots |-> MaxWorkers, clock |-> MaxClockSteps, launches |-> MaxStopLaunches, cancels |-> 0, faults |-> 0,
            stops |-> MaxStops, resets |-> 0, toggles |-> 0, deletes |-> 0])

NextStop == Next \/ stop

SpecStop == InitStop /\ [][NextStop]_vars

\* The scheduler stopped and started again at any moment.
InitRestart ==
  InitWith(InitialQueues,
           [slots |-> MaxWorkers, clock |-> MaxShortClockSteps, launches |-> MaxRestartLaunches, cancels |-> 0,
            faults |-> 0, stops |-> MaxStops, resets |-> 0, toggles |-> 0, deletes |-> 0])

NextRestart == NextStop \/ StartWhileLooping

SpecRestart == InitRestart /\ [][NextRestart]_vars

\* The scheduler with a forceDeleteTask call arriving at any moment.
InitForce ==
  InitWith(InitialQueues,
           [slots |-> MaxWorkers, clock |-> MaxShortClockSteps, launches |-> MaxForceLaunches, cancels |-> MaxCancels,
            faults |-> 0, stops |-> 0, resets |-> 0, toggles |-> 0, deletes |-> 0])

NextForce == Next \/ forceDeleteTask \/ \E w \in WorkerIds : CancelPre(w)

SpecForce == InitForce /\ [][NextForce]_vars

\* The scheduler followed long enough for one task to use up its attempts.
InitRetry ==
  InitWith(LastTaskQueue,
           [slots |-> MaxWorkers, clock |-> MaxShortClockSteps, launches |-> MaxRetryLaunches, cancels |-> 0,
            faults |-> 0, stops |-> 0, resets |-> 0, toggles |-> 0, deletes |-> 0])

SpecRetry == InitRetry /\ [][Next]_vars
\* An operator resets the accounts while the processor works.
InitReset ==
  InitWith(InitialQueues,
           [slots |-> MaxWorkers, clock |-> MaxShortClockSteps, launches |-> MaxResetLaunches,
            cancels |-> 0, faults |-> 0, stops |-> 0, resets |-> MaxResets, toggles |-> 0, deletes |-> 0])

NextReset == Next \/ ActivateAll

SpecReset == InitReset /\ [][NextReset]_vars

\* The account rows the reset may meet: any flags, a cooldown deadline or
\* none, any failure counter, a stored session or none.
AccountRows ==
  [isActive : BOOLEAN, inUse : BOOLEAN, rlu : {Null, CooldownMs},
   failureCount : 0..MaxFailureCount, sessionData : {Null, 1}]

\* The bulk reset alone, applied to any pool of account rows.
InitResetLaw ==
  /\ \E pool \in [AccountIds -> AccountRows] :
       InitPool(InitialQueues, pool,
                [slots |-> MaxWorkers, clock |-> 0, launches |-> 0, cancels |-> 0, faults |-> 0,
                 stops |-> 0, resets |-> MaxLawResets, toggles |-> 0, deletes |-> 0])

SpecResetLaw == InitResetLaw /\ [][ActivateAll]_vars

\* An operator writes the processing flag while the processor works.
InitToggle ==
  InitWith(InitialQueues,
           [slots |-> MaxWorkers, clock |-> MaxShortClockSteps, launches |-> MaxToggleLaunches,
            cancels |-> 0, faults |-> 0, stops |-> 0, resets |-> 0, toggles |-> MaxToggles, deletes |-> 0])

NextToggle == Next \/ SetConfig

SpecToggle == InitToggle /\ [][NextToggle]_vars

\* A JSON object of n characters with no brace inside.
Obj(n) == <<OpenBrace>> \o Fill(n - 2) \o <<CloseBrace>>

\* A JSON object of n characters whose first key is extraction_metadata with
\* a filled object as its value.
RealObj(n) ==
  <<OpenBrace, MetadataKey, Colon, OpenBrace>> \o Fill(10) \o <<CloseBrace>>
  \o Fill(n - 37) \o <<CloseBrace>>

\* The empty schema of the prompt, n characters: the key extraction_metadata
\* with an empty object, then other placeholders.
Skeleton(n) ==
  <<OpenBrace, MetadataKey, Colon, OpenBrace, CloseBrace>> \o Fill(n - 27) \o <<CloseBrace>>

\* How an object stands in the text: bare, in a fenced block or between the
\* delimiters.
Wrap(kind, x) ==
  CASE kind = "fenced" -> <<Fence, Ws>> \o x \o <<Ws, Fence>>
    [] kind = "delimited" -> <<StartTag, Ws>> \o x \o <<Ws, EndTag>>
    [] OTHER -> x

\* extract at step 2, with the decoded text of the response container; what
\* JSON.parse and jsonrepair make of the selected text is given with it.
NewExtraction(kind, fullText, expected, strictOk, repairOk) ==
  [pc |-> "collect", kind |-> kind, fullText |-> fullText, expected |-> expected,
   strictOk |-> strictOk, repairOk |-> repairOk, candidates |-> <<>>, bestJson |-> <<>>,
   tried |-> <<>>, error |-> NewError(""), logMetadata |-> LogMetadata(NewError(""))]

PaddingLengths == {0, PaddingLength}
EchoLengths == {0, SmallEchoLength, MediumEchoLength, LargeEchoLength}
DelimitedLengths == {SmallObjectLength, MediumObjectLength, LargeObjectLength, HugeObjectLength}

\* Texts with a candidate of 200 characters and, later, one of 5,000.
TwoCandidateTexts ==
  { [kind |-> "two",
     fullText |-> Fill(a) \o Wrap(k1, Obj(SmallCandidateLength)) \o Fill(b)
                  \o Wrap(k2, Obj(LargeCandidateLength)) \o Fill(c),
     expected |-> Obj(LargeCandidateLength)]
    : a \in PaddingLengths, b \in PaddingLengths, c \in PaddingLengths,
      k1 \in {"bare", "fenced", "delimited"}, k2 \in {"bare", "fenced", "delimited"} }

\* Texts with a delimited object inside an echo of the prompt: a characters
\* of echo, the skeleton, where tags is set the sentence of the prompt that
\* names the two delimiters, the delimited object, c more characters of echo.
EchoTexts ==
  { [kind |-> "echo",
     fullText |-> Fill(a) \o Skeleton(SkeletonLength)
                  \o (IF tags THEN <<StartTag, Ws, EndTag>> ELSE <<>>) \o Fill(PaddingLength)
                  \o <<StartTag>> \o obj \o <<EndTag>> \o Fill(c),
     expected |-> obj]
    : a \in EchoLengths, c \in EchoLengths, tags \in BOOLEAN,
      obj \in { Obj(n) : n \in DelimitedLengths } \cup { RealObj(n) : n \in DelimitedLengths } }

InitExtract ==
  /\ InitProcessor(InitialQueues, [a \in AccountIds |-> FreshAccount],
                   [slots |-> MaxWorkers, clock |-> 0, launches |-> 0, cancels |-> 0, faults |-> 0,
                    stops |-> 0, resets |-> 0, toggles |-> 0, deletes |-> 0])
  /\ \E t \in TwoCandidateTexts \cup EchoTexts, strictOk \in BOOLEAN, repairOk \in BOOLEAN :
       /\ strictOk => repairOk
       /\ extraction = NewExtraction(t.kind, t.fullText, t.expected, strictOk, repairOk)
  /\ session = NoSession
  /\ polling = NoPolling

SpecExtract == InitExtract /\ [][extract]_vars

\* init with every combination of what the four sources hold.
InitSession ==
  /\ InitProcessor(InitialQueues, [a \in AccountIds |-> FreshAccount],
                   [slots |-> MaxWorkers, clock |-> 0, launches |-> 0, cancels |-> 0, faults |-> 0,
                    stops |-> 0, resets |-> 0, toggles |-> 0, deletes |-> 0])
  /\ extraction = NoExtraction
  /\ \E d \in SourceStates, e \in SourceStates, f \in SourceStates, m \in SourceStates :
       session = NewSession(d, e, f, m)
  /\ polling = NoPolling

SpecSession == InitSession /\ [][init \/ Login]_vars

\* The three loops of one scraper run, with whatever the page shows.
InitPolling ==
  /\ InitProcessor(InitialQueues, [a \in AccountIds |-> FreshAccount],
                   [slots |-> MaxWorkers, clock |-> 0, launches |-> 0, cancels |-> 0, faults |-> 0,
                    stops |-> 0, resets |-> 0, toggles |-> 0, deletes |-> 0])
  /\ extraction = NoExtraction
  /\ session = NoSession
  /\ polling = NewPolling

SpecPolling == InitPolling /\ [][poll]_vars

\* Users delete tasks, through the queue endpoint and through
\* forceDeleteTask, while the processor works.
InitDelete ==
  InitWith(InitialQueues,
           [slots |-> MaxWorkers, clock |-> MaxShortClockSteps, launches |-> MaxDeleteLaunches,
            cancels |-> MaxCancels, faults |-> 0, stops |-> 0, resets |-> 0, toggles |-> 0,
            deletes |-> MaxDeletes])

NextDelete == NextForce \/ \E t \in 1..MaxTasks : DeleteRoute(t)

SpecDelete == InitDelete /\ [][NextDelete]_vars

\* Rows with the columns that only the worker writes: the task's
\* startedAt and assignedAccountId, the account's lastUsedAt, counters and
\* lastError; and, as history, the number of extractions completed and of
\* attempts failed on the account.
FullTask(p, m) == [status |-> "queued", retryCount |-> 0, maxRetries |-> m, priority |-> p,
                   startedAt |-> Null, assignedAccountId |-> Null]

FullAccount == [isActive |-> TRUE, inUse |-> FALSE, rlu |-> Null, lastUsedAt |-> Null,
                totalExtractionsCount |-> 0, successCount |-> 0, failureCount |-> 0,
                lastError |-> "none", completed |-> 0, failed |-> 0]

FullQueue ==
  { [t \in TaskIds |-> IF t = 1 THEN FullTask(1, DefaultMaxRetries)
                        ELSE IF t > MaxTasks THEN NoTask
                        ELSE FullTask(5, 1)] }

\* Workers and cancellations, with every column of the rows followed.
InitColumns ==
  InitPool(FullQueue, [a \in AccountIds |-> FullAccount],
           [slots |-> MaxWorkers, clock |-> MaxShortClockSteps, launches |-> MaxColumnLaunches,
            cancels |-> MaxCancels, faults |-> 0, stops |-> 0, resets |-> 0, toggles |-> 0,
            deletes |-> 0])

SpecColumns == InitColumns /\ [][NextCancel]_vars

\* The scheduler left alone with its queue until nothing remains to do: the
\* loop and every worker keep taking their steps, and time passes.
InitProgress ==
  InitPool(SingleQueue, SinglePool,
           [slots |-> MaxWorkers, clock |-> 0, launches |-> MaxProgressLaunches, cancels |-> 0,
            faults |-> 0, stops |-> 0, resets |-> 0, toggles |-> 0, deletes |-> 0])

NextProgress == start \/ processLoop \/ Elapse \/ \E w \in WorkerIds : WorkerStep(w)

Fairness ==
  /\ WF_vars(start)
  /\ WF_vars(processLoop)
  /\ WF_vars(Elapse)
  /\ \A w \in WorkerIds : WF_vars(WorkerStep(w))

SpecProgress == InitProgress /\ [][NextProgress]_vars /\ Fairness

----------------------------------------------------------------------------
\* Claims

Other(w, v) == w # v /\ Active(w) /\ Active(v)

\* C1: no two workers that have started and not yet finished have the same
\* account.
C1_AccountMutualExclusion ==
  \A w, v \in WorkerIds : Other(w, v) => workers[w].acct # workers[v].acct

\* C2: no two workers that have started and not yet finished process the same
\* task.
C2_TaskExclusivity ==
  \A w, v \in WorkerIds : Other(w, v) => workers[w].task # workers[v].task

\* C3: the stored retryCount of a task never exceeds the task's own maxRetries,
\* and a task whose retryCount has reached its maxRetries is not Queued.
C3_RetryBound ==
  \A t \in TaskIds :
    /\ tasks[t].retryCount <= tasks[t].maxRetries
    /\ tasks[t].retryCount = tasks[t].maxRetries => tasks[t].status # "queued"

\* C4: once cancelTask has returned true for a task that had a running worker,
\* the task is Cancelled and stays Cancelled.
C4_CancelRunningStaysCancelled ==
  (cancel.kind = "running" /\ cancel.pc = "retTrue")
    => tasks[cancel.task].status = "cancelled"

\* C5: once cancelTask has returned for a task that was Queued with no worker,
\* the task is Cancelled, and no worker holds an account for it.
C5_CancelQueuedDirect ==
  (cancel.kind = "queuedIdle" /\ cancel.pc \in {"retTrue", "retFalse"})
    => /\ tasks[cancel.task].status = "cancelled"
       /\ \A w \in WorkerIds : workers[w].task = cancel.task => ~HoldsAccount(w)

\* C6: a worker that held its account when its task was cancelled has written
\* isCurrentlyInUse = false before the second polling interval after the
\* cancellation begins.
C6_ReleaseWithinInterval ==
  \A w \in WorkerIds : workers[w].cancelHeld => cancel.polls < 2

\* C7: no account is in use with no worker running on it.
C7_NoOrphanInUse ==
  \A a \in AccountIds :
    accounts[a].inUse => \E w \in WorkerIds : Active(w) /\ workers[w].acct = a

RateLimited(a) == accounts[a].rlu # Null /\ accounts[a].rlu > now

\* C8: every account handed to a new worker is, at that moment, not
\* rate-limited, and the tick counts no rate-limited account as available.
C8_RateLimitRespect ==
  [][ /\ \A w \in WorkerIds :
           (~Active(w) /\ workers'[w].pc # "idle") => ~RateLimited(workers'[w].acct)
      /\ (lpc = "count" /\ lpc' # "count") =>
           canStartNew' <= Cardinality({a \in AccountIds : ~RateLimited(a)})
                           - Cardinality(runningTasks)
    ]_vars

\* C8 witness: a worker was just launched on an account that had been
\* rate-limited and whose deadline had passed when it was selected.
C8_Witness ==
  \E w \in WorkerIds :
    /\ workers[w].pc = "markProcessing"
    /\ workers[w].acctRlu # Null /\ workers[w].acctRlu < now

\* C9: an account that is active, not in use and whose deadline equals the
\* current time can be selected.
C9_DeadlineBoundary ==
  \A a \in AccountIds :
    (accounts[a].isActive /\ ~accounts[a].inUse /\ accounts[a].rlu = now)
      => a \in GetAvailableAccount

\* C10: when the failure handler updates the account, the deadline becomes
\* the failure time plus one hour if the error was a rate limit, and is not
\* in the future otherwise.
C10_FixedCooldown ==
  [][ \A w \in WorkerIds :
        (workers[w].pc = "catchAccount" /\ workers'[w].pc = "close") =>
          LET a == workers[w].acct IN
            IF workers[w].isRL
            THEN accounts'[a].rlu = workers[w].failNow + CooldownMs
            ELSE ~(accounts'[a].rlu # Null /\ accounts'[a].rlu > now')
    ]_vars

\* C10 witness: a worker whose account carried the deadline of an earlier
\* rate-limit failure has failed with a rate limit again, and the account's
\* deadline is that failure's time plus one hour.
C10_Witness ==
  \E w \in WorkerIds :
    /\ workers[w].pc = "close" /\ workers[w].isRL
    /\ workers[w].acctRlu # Null
    /\ accounts[workers[w].acct].rlu = workers[w].failNow + CooldownMs

----------------------------------------------------------------------------
\* Claims about scheduling

\* The step starts processTask in slot w.
Launched(w) == ~Active(w) /\ workers'[w].pc # "idle"

C12_PriorityScenario ==
  handed[3] > 0 => (handed[1] > 0 /\ handed[2] > 0)

\* C12 witness: C has been started, after A and B.
C12_Witness ==
  /\ handed[3] > 0
  /\ \E w \in WorkerIds : workers[w].task = 3 /\ workers[w].pc = "markProcessing"

\* C13: with three Queued tasks and one active account, at most one task is
\* Processing and at most one worker runs at any time; a task is handed to a
\* worker only after every task before it in scheduling order has been, and a
\* task not yet handed to a worker is still Queued.
C13_SingleAccount ==
  /\ Cardinality({ t \in TaskIds : tasks[t].status = "processing" }) <= 1
  /\ Cardinality({ w \in WorkerIds : Active(w) }) <= 1
  /\ \A t \in TaskIds :
       /\ handed[t] = 0 => tasks[t].status = "queued"
       /\ handed[t] > 0 => \A u \in TaskIds \ {t} : Before(u, t) => handed[u] > 0

\* C13 witness: the first task has completed and the second is Processing
\* while the third is still Queued.
C13_Witness ==
  \E t, u, v \in TaskIds :
    /\ tasks[t].status = "completed" /\ tasks[u].status = "processing"
    /\ tasks[v].status = "queued" /\ handed[v] = 0

\* C14: the number of workers running at the same time never exceeds the
\* number of active accounts (and so never the number of those that are also
\* not rate-limited), and a tick launches no worker when its availableSlots
\* is zero or negative.
C14_ConcurrencyCap ==
  [][ /\ Cardinality({ w \in WorkerIds : workers'[w].pc # "idle" })
           <= Cardinality({ a \in AccountIds : accounts'[a].isActive })
      /\ \A w \in WorkerIds : Launched(w) => canStartNew > 0
    ]_vars

\* C15: when stop() returns, every worker that was running when it was
\* called has finished; the steps of stop() change no task and no worker,
\* and the call sets isRunning false.
C15_GracefulStop ==
  [][ /\ stopper'.pc = "returned" => stopper'.atCall = {}
      /\ (stopper'.pc # stopper.pc) => (tasks' = tasks /\ workers' = workers)
      /\ (stopper'.pc = "waiting" /\ stopper.pc # "waiting") => isRunning' = FALSE
    ]_vars

\* C16: once forceDeleteTask(id) has ended, no task row with that id exists,
\* and no account stays in use without a running worker on it.
C16_ForceDelete ==
  (cancel.force /\ cancel.pc \in {"deleted", "deleteThrew"}) =>
    /\ tasks[cancel.task].status = "absent"
    /\ \A a \in AccountIds :
         accounts[a].inUse => \E w \in WorkerIds : Active(w) /\ workers[w].acct = a

\* C17: a step of a worker's failure handler leaves the loop where it is and
\* changes neither the task row, nor the account row, nor the state of
\* another running worker.
C17_FailureIsolation ==
  [][ \A w \in WorkerIds :
        (workers[w].pc \in CatchSteps /\ workers'[w] # workers[w]) =>
          /\ lpc' = lpc /\ isRunning' = isRunning
          /\ \A v \in WorkerIds \ {w} :
               Active(v) => /\ workers'[v] = workers[v]
                            /\ tasks'[workers[v].task] = tasks[workers[v].task]
                            /\ accounts'[workers[v].acct] = accounts[workers[v].acct]
    ]_vars

\* C18: no task has more than one knowledge graph record, a Completed task
\* has exactly one, and the records of a task are never removed.
C18_OneRecordPerExtraction ==
  [][ \A t \in TaskIds :
        /\ kgs'[t] <= 1
        /\ tasks'[t].status = "completed" => kgs'[t] = 1
        /\ kgs'[t] >= kgs[t]
    ]_vars

\* The status changes the task state machine allows.
AllowedTransitions ==
  { <<"queued", "processing">>, <<"processing", "completed">>,
    <<"processing", "queued">>, <<"processing", "failed">>,
    <<"queued", "cancelled">>, <<"processing", "cancelled">> }

\* C19: the status of a task changes only along the allowed transitions; in
\* particular a Completed, Failed or Cancelled task keeps its status.
C19_TaskStateMachine ==
  [][ \A t \in TaskIds :
        tasks'[t].status # tasks[t].status =>
          <<tasks[t].status, tasks'[t].status>> \in AllowedTransitions
    ]_vars

\* C20: no task is handed to a worker more than 3 times, and a Failed task
\* stays Failed and is not handed to a worker again.
C20_AtMostThreeAttempts ==
  [][ \A t \in TaskIds :
        /\ handed'[t] <= HardMaxRetries
        /\ tasks[t].status = "failed" =>
             (tasks'[t].status = "failed" /\ handed'[t] = handed[t])
    ]_vars

----------------------------------------------------------------------------
\* Claims about administration

\* C21: the bulk reset may run at any moment: no worker is ever launched on an
\* account that another running worker has marked in use and not yet
\* released, and when no worker runs no account is marked in use.
C21_BulkResetSafe ==
  /\ [][\A w \in WorkerIds :
          Launched(w) =>
            \A v \in WorkerIds \ {w} :
              ~(HoldsAccount(v) /\ workers[v].acct = workers'[w].acct)]_vars
  /\ []((\A w \in WorkerIds : ~Active(w)) => \A a \in AccountIds : ~accounts[a].inUse)

\* C22: the bulk reset sets isActive, isCurrentlyInUse and rateLimitedUntil of
\* every account and no other field, and a second reset changes nothing.
C22_BulkResetIdempotent ==
  [][accounts' # accounts \/ budget' # budget =>
       /\ \A a \in AccountIds :
            /\ accounts'[a].isActive /\ ~accounts'[a].inUse /\ accounts'[a].rlu = Null
            /\ accounts'[a].failureCount = accounts[a].failureCount
            /\ accounts'[a].sessionData = accounts[a].sessionData
       /\ FixAccountsActiveStatus(accounts') = accounts']_vars

\* A second reset has run on rows that carried a counter and a session.
C22_Witness ==
  /\ budget.resets = 0
  /\ \E a \in AccountIds : accounts[a].failureCount > 0 /\ accounts[a].sessionData # Null

\* C23: the loop leaves its flag test towards the account count only when
\* the flag reads 'true'; tasks are fetched only after that count and workers
\* are launched only after that fetch; a step of the loop that reads another
\* value touches no worker, and every running worker can take its next step
\* whatever the flag holds.
C23_ProcessingToggle ==
  /\ [][/\ lpc = "check" /\ lpc' # "check" /\ isRunning => lpc' = "count" /\ enabled = "true"
        /\ lpc # "count" /\ lpc' = "count" => lpc = "check"
        /\ lpc # "fetch" /\ lpc' = "fetch" => lpc = "count"
        /\ pendingTasks' # pendingTasks => lpc \in {"fetch", "claim"}
        /\ (\E w \in WorkerIds : Launched(w)) => lpc = "claim"
        /\ lpc = "check" /\ enabled # "true" /\ tickStarted' # tickStarted =>
             UNCHANGED <<workers, tasks, accounts, procVars>>]_vars
  /\ [](\A w \in WorkerIds : Active(w) => ENABLED WorkerStep(w))

\* The flag was switched off while a worker ran; the loop has read it and
\* stays at its test, and the worker has gone on to complete its task.
C23_Witness ==
  /\ enabled # "true" /\ lpc = "check" /\ isRunning /\ budget.toggles = MaxToggles - 1
  /\ tickStarted = {}
  /\ \E w \in WorkerIds : workers[w].pc = "close" /\ tasks[workers[w].task].status = "completed"

\* C24: a worker starts with a scraper of its own that nothing has used, and
\* ends only by the step that closes it, whether its task succeeded, failed
\* or was cancelled before or after it started; the scraper registered for a
\* task is the one of a running worker of that task, and cancelTask closes no
\* other scraper than the one registered for its task.
C24_BrowserTeardown ==
  /\ [][\A w \in WorkerIds :
          /\ Active(w) /\ workers'[w].pc = "idle" => workers[w].pc = "close"
          /\ Launched(w) =>
               workers'[w].scraper = "new" /\ runningScrapers'[workers'[w].task] = w
          /\ workers[w].scraper # "closed" /\ workers'[w].scraper = "closed" =>
               cancel'.task = workers[w].task /\ runningScrapers[cancel'.task] = w]_vars
  /\ [](\A t \in TaskIds :
          runningScrapers[t] # 0 =>
            Active(runningScrapers[t]) /\ workers[runningScrapers[t]].task = t)

\* A worker whose browser cancelTask closed while it ran has left its handler
\* and is about to close its scraper.
C24_Witness ==
  \E w \in WorkerIds :
    /\ workers[w].pc = "close"
    /\ handed[workers[w].task] = 1
    /\ cancel.kind = "running" /\ cancel.task = workers[w].task
    /\ cancel.pc = "retTrue" /\ tasks[workers[w].task].status = "cancelled"

----------------------------------------------------------------------------
\* Claims about the scraper

\* C25: from a text that holds a candidate of 200 characters and, later, one
\* of 5,000 characters, the text selected for parsing is the one of 5,000.
C25_LongestMatch ==
  extraction.pc \in {"parse", "returned", "thrown", "logged"} /\ extraction.kind = "two" =>
    extraction.bestJson = extraction.expected

\* C26: from a text that holds a delimited object inside an echo of the prompt
\* with its empty skeleton, the text selected for parsing is the object
\* between the delimiters, whatever the size of the echo.
C26_DelimitedObject ==
  extraction.pc \in {"parse", "returned", "thrown", "logged"} /\ extraction.kind = "echo" =>
    extraction.bestJson = extraction.expected

\* C27: the repair is tried only after the standard parse failed, the parse
\* error is raised only when both failed, and the error event of every failed
\* extraction holds the raw text, its length and a preview.
C27_ParseFallbackAndDiagnostics ==
  /\ extraction.pc \in {"returned", "thrown", "logged"} /\ extraction.tried # <<>> =>
       /\ extraction.tried[1] = "standard"
       /\ Len(extraction.tried) = 2 <=> ~extraction.strictOk
       /\ extraction.error.message = "JSON Parse Failed" <=>
            ~extraction.strictOk /\ ~extraction.repairOk
  /\ extraction.pc = "logged" =>
       /\ extraction.logMetadata.rawResponse # Null
       /\ extraction.logMetadata.rawResponseLength # Null
       /\ extraction.logMetadata.rawResponsePreview # Null

\* The source the claimed order selects.
FirstGoodSource ==
  CASE session.database = "good" -> "database"
    [] session.environment = "good" -> "environment"
    [] session.file = "good" -> "file"
    [] OTHER -> "fresh"

\* C28: init never aborts because of a session source, and it ends with the
\* session of the first source that loads in the order database, environment
\* value, shared file, else with a fresh context.
C28_SessionSourcePriority ==
  /\ session.pc # "thrown"
  /\ session.pc = "done" => session.context = FirstGoodSource

\* C29: the interstitial loop runs at most 3 rounds; a smart-wait iteration
\* starts only while less than 10 seconds are used, so there are at most 20;
\* completion polling makes at most 60 polls and waits at most 120 seconds;
\* every step of a loop advances its counter; and from the ceiling the scraper
\* goes on to the DOM evaluation with a warning instead of throwing.
C29_BoundedPolling ==
  /\ [](/\ polling.attempt <= MaxAttempts
        /\ polling.iteration * CheckInterval <= MaxWaitTime
        /\ polling.polls * PollInterval <= MaxResponseWaitTime
        /\ polling.waitTime <= MaxResponseWaitTime)
  /\ [][/\ polling'.iteration # polling.iteration => polling.elapsed < MaxWaitTime
        /\ polling'.pc = polling.pc =>
             polling'.attempt + polling'.iteration + polling'.polls
               > polling.attempt + polling.iteration + polling.polls
        /\ polling.pc = "completion" /\ polling.waitTime >= MaxResponseWaitTime =>
             polling'.pc = "domEvaluation" /\ polling'.warned]_vars

\* Generation never stopped: after 60 polls the warning is logged and the DOM
\* evaluation has begun.
C29_Witness ==
  /\ polling.pc = "domEvaluation" /\ polling.warned
  /\ polling.polls * PollInterval = MaxResponseWaitTime
  /\ polling.attempt = MaxAttempts

\* C30: a task row whose status is processing is removed only after a
\* cancelTask call for that task has closed the worker's scraper and returned
\* true.
C30_NoDeleteWhileProcessing ==
  [][\A t \in TaskIds :
       tasks[t].status = "processing" /\ tasks'[t].status = "absent" =>
         cancel.task = t /\ cancel.pc = "retTrue"]_vars

----------------------------------------------------------------------------
\* Claims about bookkeeping, cancellation and progress

\* C31: runningTasks holds exactly the ids of the tasks that have a started
\* and unfinished worker, and its size is the number of those workers.
C31_RunningSetBookkeeping ==
  /\ runningTasks = { workers[w].task : w \in { v \in WorkerIds : Active(v) } }
  /\ Cardinality(runningTasks) = Cardinality({ w \in WorkerIds : Active(w) })

\* C32: a worker handed a task whose cancel flag is set starts at the
\* checkpoint, and its step from there writes the status cancelled and
\* nothing else: the task's other columns and every account row are as
\* before, and its scraper was never launched.
C32_CancellationCheckpoint ==
  [][\A w \in WorkerIds :
       /\ Launched(w) /\ workers'[w].task \in cancelledTasks => workers'[w].pc = "cancelPre"
       /\ workers[w].pc = "cancelPre" /\ workers'[w] # workers[w] =>
            /\ tasks' = [tasks EXCEPT ![workers[w].task].status = "cancelled"]
            /\ accounts' = accounts
            /\ workers[w].scraper = "new"
            /\ workers'[w].pc = "close" /\ workers'[w].scraper # "open"]_vars

\* A worker that started at the checkpoint has written cancelled on a task
\* that was never started, on an account that was never used.
C32_Witness ==
  \E w \in WorkerIds :
    /\ workers[w].pc = "close" /\ handed[workers[w].task] = 1
    /\ tasks[workers[w].task].status = "cancelled"
    /\ tasks[workers[w].task].startedAt = Null
    /\ accounts[workers[w].acct].lastUsedAt = Null

\* C33: the step that ends a successful extraction raises successCount and
\* totalExtractionsCount of the account by 1, the step that ends a failed
\* attempt raises failureCount by 1 and records lastError; and at all times
\* successCount is the number of extractions completed on the account and
\* failureCount the number of attempts that failed on it.
C33_CountersMatchOutcomes ==
  /\ [][\A a \in AccountIds :
          /\ accounts'[a].completed # accounts[a].completed =>
               /\ accounts'[a].successCount = accounts[a].successCount + 1
               /\ accounts'[a].totalExtractionsCount = accounts[a].totalExtractionsCount + 1
          /\ accounts'[a].failed # accounts[a].failed =>
               /\ accounts'[a].failureCount = accounts[a].failureCount + 1
               /\ accounts'[a].lastError = "message"]_vars
  /\ [](\A a \in AccountIds :
          /\ accounts[a].successCount = accounts[a].completed
          /\ accounts[a].failureCount = accounts[a].failed)

\* Steps of the scraper run between sending the prompt and polling for the
\* end of generation.
Resubmits == polling.pc = "verify" /\ polling'.pc = "verifyRetry"

\* C34 as stated: a start check that detects nothing is followed by one
\* re-submission, a send click and Enter; a second check that detects nothing
\* ends in an error; completion polling is entered only from a check that
\* detected generation.
C34_ResubmitClickAndEnter ==
  [][/\ Resubmits =>
          /\ polling.retries = 0 /\ polling'.retries = 1
          /\ polling'.clicks = polling.clicks + 1
          /\ polling'.enters = polling.enters + 1
     /\ polling'.retries # polling.retries => Resubmits
     /\ polling'.startWait <= StartTimeout + RetryPause + RetryTimeout
     /\ polling.pc = "thrown" => polling'.pc = "thrown"
     /\ polling.pc # "completion" /\ polling'.pc = "completion" =>
          polling.pc \in {"verify", "verifyRetry"}]_vars

\* C34, amended: the re-submission is Enter, preceded by a send click only if
\* the send button had been found.
C34_ResubmitOnce ==
  [][/\ Resubmits =>
          /\ polling.retries = 0 /\ polling'.retries = 1
          /\ polling'.clicks = polling.clicks + (IF polling.sendButton THEN 1 ELSE 0)
          /\ polling'.enters = polling.enters + 1
     /\ polling'.retries # polling.retries => Resubmits
     /\ polling'.startWait <= StartTimeout + RetryPause + RetryTimeout
     /\ polling.pc = "thrown" /\ polling.retries = 1 =>
          polling'.pc = "thrown" /\ polling.polls = 0
     /\ polling.pc # "completion" /\ polling'.pc = "completion" =>
          polling.pc \in {"verify", "verifyRetry"} /\ polling'.started
     /\ polling.pc = "verifyRetry" /\ ~polling'.started => polling'.pc = "thrown"
     /\ polling.pc = "verifyRetry" /\ polling'.pc = "thrown" =>
          polling'.startWait = StartTimeout + RetryPause + RetryTimeout]_vars

\* Generation was detected at neither check: one re-submission was made and
\* extract has thrown without polling.
C34_Witness ==
  polling.pc = "thrown" /\ polling.retries = 1 /\ polling.polls = 0 /\ polling.sendButton

\* C35: a login that has reached the chat surface has written the session
\* state of the account, whichever source the context was made from.
C35_SessionSaved ==
  session.pc = "chat" => session.saved /\ session.emailFile = "good"

\* C36: whatever the order of start() and stop() calls, at most one
\* processLoop is inside its while.
C36_SingleLoop == loops <= 1

\* C37: from the return of stop() until the next start(), no worker is
\* running and no worker is launched.
C37_QuiescentAfterStop ==
  /\ [](stopper.pc = "returned" /\ ~isRunning => \A w \in WorkerIds : ~Active(w))
  /\ [][stopper.pc = "returned" /\ ~isRunning => \A w \in WorkerIds : ~Launched(w)]_vars

\* C38: once cancelTask has returned true for a task, no step makes that
\* task Completed and no step stores a knowledge graph for it.
C38_CancelEffective ==
  [][cancel.pc = "retTrue" /\ ~cancel.force =>
       /\ tasks'[cancel.task].status # "completed"
       /\ kgs'[cancel.task] = kgs[cancel.task]]_vars

\* C39: a tick that finds a Queued task no worker has and an available
\* account, while every running worker holds an account of its own marked in
\* use, goes on to fetch and launch.
C39_WorkConservation ==
  [][(/\ lpc = "count" /\ lpc' # "count"
      /\ \E t \in Queued : \A w \in WorkerIds : workers[w].task # t
      /\ \A w \in WorkerIds : Active(w) => HoldsAccount(w) /\ accounts[workers[w].acct].inUse
      /\ GetAvailableAccount # {})
       => lpc' = "fetch" /\ canStartNew' > 0]_vars

\* The queue is worked off and the processor holds nothing.
Settled ==
  /\ \A t \in TaskIds : tasks[t].status \in {"completed", "failed", "cancelled", "absent"}
  /\ \A a \in AccountIds : ~accounts[a].inUse
  /\ runningTasks = {} /\ cancelledTasks = {}
  /\ \A t \in TaskIds : runningScrapers[t] = 0
  /\ \A w \in WorkerIds : ~Active(w)

====
